---------------------------- MODULE Spec2Model ----------------------------
(***************************************************************************)
(* Model of MCEq/data.py: the hadron-air cross-section table with its      *)
(* fallback policy (HadAirCrossSections), the per-particle regime          *)
(* classification (NCEParticle), the interaction yield table with model   *)
(* selection and charm-model injection (InteractionYields) and the decay   *)
(* yield table with its muon aliases (DecayYields).                        *)
(*                                                                         *)
(* Python objects are records, dictionaries are functions, a raised        *)
(* exception is an "exc" field of the operation's outcome.  Grid indices   *)
(* kept by the code (mix_idx) are 0-based as in the code; sequences of the *)
(* model are 1-based, so grid point i of the code is element i+1.          *)
(***************************************************************************)
EXTENDS Integers, Sequences, FiniteSets, TLC

VARIABLES
    cs_dict,      \* HadAirCrossSections.cs_dict: model name -> (pdg id -> curve)
    hcs,          \* the HadAirCrossSections object: [iam, cs]
    cs_out,       \* outcome of the last HadAirCrossSections call
    config,       \* mceq_config.config: [hybrid_crossover]
    pythia_db,    \* particle property source: [mass, ctau] of the particle's id
    particle,     \* the NCEParticle object
    p_out,        \* outcome of the last NCEParticle call
    yield_dict,   \* InteractionYields.yield_dict: model name -> (key -> matrix)
    yields_copy,  \* the dictionary object made by copy(self.yields)
    iy,           \* the InteractionYields object
    y_out,        \* outcome of the last InteractionYields call
    loaded,       \* yield_dict as _load() returned it (never written afterwards)
    decay_file,   \* the pickled decay dictionary: [dict, order of iteration]
    dy,           \* the DecayYields object
    d_out         \* outcome of the last DecayYields call

vars == <<cs_dict, hcs, cs_out, config, pythia_db, particle, p_out,
          yield_dict, yields_copy, iy, y_out, loaded, decay_file, dy, d_out>>
dVars == <<decay_file, dy, d_out>>

csVars == <<cs_dict, hcs, cs_out>>
pVars  == <<config, pythia_db, particle, p_out>>
yVars  == <<yield_dict, yields_copy, iy, y_out, loaded>>

(***************************************************************************)
(* Bounds                                                                  *)
(***************************************************************************)
\* dimension of the energy grid (InteractionYields.dim, NCEParticle.d)
N == 3

\* Python None where a (model) name is expected: the empty name
None == << >>

Abs(x) == IF x < 0 THEN 0 - x ELSE x

RECURSIVE Pow2(_)
Pow2(k) == IF k = 0 THEN 1 ELSE 2 * Pow2(k - 1)

(***************************************************************************)
(* Floating point values are modelled exactly as extended non-negative     *)
(* rationals <<n, d>>: d = 0 with n > 0 is +inf, <<0, 0>> is nan.          *)
(* Comparisons with nan are false, as in IEEE arithmetic.                  *)
(***************************************************************************)
Num(n)   == <<n, 1>>
Zero     == <<0, 1>>
One      == <<1, 1>>
Inf      == <<1, 0>>
NaN      == <<0, 0>>
IsNaN(a) == a[1] = 0 /\ a[2] = 0
Sgn(k)   == IF k > 0 THEN 1 ELSE 0
\* canonical form of inf so that equal values are equal tuples
Canon(a) == IF a[2] = 0 THEN <<Sgn(a[1]), 0>>
            ELSE IF a[1] = 0 THEN Zero ELSE a
\* numpy division: x/0 = inf, 0/0 = nan, x/inf = 0, inf/inf = nan
NpDiv(a, b) == Canon(<<a[1] * b[2], a[2] * b[1]>>)
Gt(a, b) == ~IsNaN(a) /\ ~IsNaN(b) /\ a[1] * b[2] > b[1] * a[2]
Lt(a, b) == Gt(b, a)
Le(a, b) == ~IsNaN(a) /\ ~IsNaN(b) /\ ~Gt(a, b)

\* np.max / np.min over a 1..N array: nan propagates
NpMax(arr) ==
    IF \E i \in DOMAIN arr : IsNaN(arr[i]) THEN NaN
    ELSE arr[CHOOSE i \in DOMAIN arr : \A j \in DOMAIN arr : ~Gt(arr[j], arr[i])]
NpMin(arr) ==
    IF \E i \in DOMAIN arr : IsNaN(arr[i]) THEN NaN
    ELSE arr[CHOOSE i \in DOMAIN arr : \A j \in DOMAIN arr : ~Gt(arr[i], arr[j])]

(***************************************************************************)
(* Energy grid: bin centers e_grid and bin edges e_bins (ascending).       *)
(***************************************************************************)
e_grid == [i \in 1..N |-> Pow2(i)]
e_bins == [i \in 1..(N + 1) |-> (3 * Pow2(i - 1)) \div 2]


(***************************************************************************)
(* Interaction model names.  A name is a sequence of tokens so that the    *)
(* prefix test name.find('SIBYLL2.3') == 0 is a test of the first token.   *)
(***************************************************************************)
SIBYLL23        == <<"SIBYLL2.3">>
SIBYLL23_pp     == <<"SIBYLL2.3", "_pp">>
SIBYLL23_rc1_pl == <<"SIBYLL2.3", "_rc1_pl">>
SIBYLL22        == <<"SIBYLL2.2">>
QGSJET          == <<"QGSJET">>
DPMJET          == <<"DPMJET">>

StartsWith(name, token) == Len(name) > 0 /\ name[1] = token

(***************************************************************************)
(* Cross-section data (the unpickled cs_dict): curves over the grid in     *)
(* mbarn.                                                                  *)
(***************************************************************************)
CurveConst(c)    == [i \in 1..N |-> c]
CurveStep(a, b)  == [i \in 1..N |-> IF i = 1 THEN a ELSE b]

CsAir  == (211 :> CurveConst(1)) @@ (321 :> CurveStep(4, 1)) @@ (2212 :> CurveConst(2))
CsPP   == (211 :> CurveConst(2)) @@ (321 :> CurveStep(8, 2)) @@ (2212 :> CurveConst(4))
CsGap  == (211 :> CurveStep(0, 1)) @@ (321 :> CurveConst(1)) @@ (2212 :> CurveConst(2))
             @@ (411 :> CurveConst(3)) @@ (-13 :> CurveConst(1))
CsNoK  == (211 :> CurveConst(1)) @@ (2212 :> CurveConst(2))

CsTables ==
    { (SIBYLL23 :> CsAir) @@ (SIBYLL23_pp :> CsPP) @@ (QGSJET :> CsGap),
      (SIBYLL23 :> CsGap) @@ (QGSJET :> CsNoK),
      (QGSJET :> CsAir) }

CsNames == {SIBYLL23, SIBYLL23_pp, SIBYLL23_rc1_pl, SIBYLL22, QGSJET, DPMJET}

(***************************************************************************)
(* HadAirCrossSections                                                     *)
(***************************************************************************)
\* exponent of ten of the unit conversion mbarn -> cm^2:
\* mbarn2cm2 = (GeVfm * 1e-13)^2 / (10 * GeVfm^2) = 1e-27
mbarn2cm2 == 0 - 27

\* set_interaction_model(interaction_model) on object obj; the object after
\* the call and the exception raised, if any
HCS_set_interaction_model(dict, dbg, obj, interaction_model) ==
    IF interaction_model = obj.iam /\ dbg > 0
    THEN [obj |-> obj, exc |-> "none"]
    ELSE IF interaction_model \notin DOMAIN dict
            /\ ~StartsWith(interaction_model, "SIBYLL2.2")
            /\ ~StartsWith(interaction_model, "SIBYLL2.3")
    THEN [obj |-> obj, exc |-> "Exception"]
    ELSE LET iam == IF interaction_model \in DOMAIN dict
                    THEN interaction_model ELSE SIBYLL23
         IN  IF iam \in DOMAIN dict
             THEN [obj |-> [iam |-> iam, cs |-> iam], exc |-> "none"]
             ELSE [obj |-> [obj EXCEPT !.iam = iam], exc |-> "KeyError"]

\* HadAirCrossSections(interaction_model)
HCS_init(dict, dbg, interaction_model) ==
    HCS_set_interaction_model(dict, dbg, [iam |-> None, cs |-> None],
        IF interaction_model # None THEN interaction_model ELSE SIBYLL22)

Curve(exp, tab, key) ==
    IF key \in DOMAIN tab
    THEN [exc |-> "none", kind |-> "curve", val |-> tab[key], exp |-> exp]
    ELSE [exc |-> "KeyError", kind |-> "none", val |-> << >>, exp |-> 0]

\* the lookup of the tabulated branch indexes the table with the signed id
TabulatedKey(projectile) == projectile
\* get_cs(projectile, mbarn) on the table tab = self.cs
get_cs(tab, projectile, mbarn) ==
    LET scale == IF mbarn THEN 0 ELSE mbarn2cm2
        a     == Abs(projectile)
    IN  IF a \in DOMAIN tab THEN Curve(scale, tab, TabulatedKey(projectile))
        ELSE IF a \in {411, 421, 431, 15} THEN Curve(scale, tab, 321)
        ELSE IF a \in {4332, 4232, 4132} THEN Curve(scale, tab, 2212)
        ELSE IF a > 2000 /\ a < 5000 THEN Curve(scale, tab, 2212)
        ELSE IF (11 < a /\ a < 17) \/ (7000 < a /\ a < 7500)
             THEN [exc |-> "none", kind |-> "scalar", val |-> 0, exp |-> 0]
        ELSE Curve(scale, tab, 211)

\* identifiers passed to get_cs: the tabulated ones, their antiparticles and
\* both sides of every band boundary
Projectiles ==
    LET mags == {10, 11, 12, 13, 15, 16, 17, 22, 111, 211, 321, 411, 421, 431,
                 2000, 2001, 2212, 3122, 4132, 4232, 4332, 4999, 5000,
                 7000, 7001, 7013, 7499, 7500}
    IN  mags \cup {0 - m : m \in mags} \cup {0}

CsIdle == [op |-> "none", projectile |-> 0, mbarn |-> FALSE,
           exc |-> "none", kind |-> "none", val |-> << >>, exp |-> 0]

DbgLevels == {0, 1}

InitCS ==
    /\ cs_dict \in CsTables
    /\ config \in [hybrid_crossover : {1}, dbg : DbgLevels]
    /\ \E name \in CsNames \cup {None} :
         LET r == HCS_init(cs_dict, config.dbg, name)
         IN  r.exc = "none" /\ hcs = r.obj
    /\ cs_out = CsIdle
    /\ pythia_db = << >>
    /\ particle = << >>
    /\ p_out = << >>
    /\ yield_dict = << >>
    /\ yields_copy = << >>
    /\ iy = << >>
    /\ y_out = << >>
    /\ loaded = << >>
    /\ decay_file = << >>
    /\ dy = << >>
    /\ d_out = << >>

CS_set_interaction_model(name) ==
    LET r == HCS_set_interaction_model(cs_dict, config.dbg, hcs, name)
    IN  /\ hcs' = r.obj
        /\ cs_out' = [CsIdle EXCEPT !.op = "set_interaction_model", !.exc = r.exc]
        /\ UNCHANGED cs_dict

CS_get_cs(projectile, mbarn) ==
    LET r == get_cs(cs_dict[hcs.cs], projectile, mbarn)
    IN  /\ cs_out' = [op |-> "get_cs", projectile |-> projectile, mbarn |-> mbarn,
                      exc |-> r.exc, kind |-> r.kind, val |-> r.val, exp |-> r.exp]
        /\ UNCHANGED <<cs_dict, hcs>>


(***************************************************************************)
(* NCEParticle                                                             *)
(***************************************************************************)
\* species tables of the particle database (particle_db.mesons, .baryons)
Mesons  == {111, 211, -211, 321, -321, 411, -411}
Baryons == {2212, -2212, 2112, -2112, 3122, -3122}
PdgIds  == {211, -211, 321, 411, 3122, 13, 7013, 2212, -2112}

\* property source: per identifier the mass, the proper lifetime c*tau, and
\* whether the lookup succeeds at all
PythiaTables ==
    { [p \in PdgIds |-> [known |-> p \notin unk, mass |-> m, ctau |-> c]] :
        m \in {0, 1}, c \in {0, 1, 2}, unk \in {{}, {411}} }

\* crossover thresholds, in units of 1.240e-03 * mbarn2cm2 / m_air
CrossOvers == {1, 2, 4, 8, 16}

\* mass / ctau of two Python floats
PyDivRaises(db, pdgid) == ~db[pdgid].known \/ db[pdgid].ctau = 0
PyDivExc(db, pdgid) ==
    IF ~db[pdgid].known THEN "KeyError" ELSE "ZeroDivisionError"
PyDiv(db, pdgid) == Canon(<<db[pdgid].mass, db[pdgid].ctau>>)

\* critical_energy(), in units of 6.4e5; only ZeroDivisionError is caught
critical_energy(db, pdgid) ==
    IF ~PyDivRaises(db, pdgid) THEN [exc |-> "none", val |-> PyDiv(db, pdgid)]
    ELSE IF PyDivExc(db, pdgid) = "ZeroDivisionError"
         THEN [exc |-> "none", val |-> Inf]
         ELSE [exc |-> PyDivExc(db, pdgid), val |-> NaN]

\* NCEParticle.__init__
NewParticle(db, pdgid) ==
    [ pdgid        |-> pdgid,
      E_mix        |-> 0,
      mix_idx      |-> 0,
      E_crit       |-> critical_energy(db, pdgid).val,
      is_hadron    |-> pdgid \in Mesons \cup Baryons,
      is_meson     |-> pdgid \in Mesons,
      is_baryon    |-> pdgid \notin Mesons /\ pdgid \in Baryons,
      is_lepton    |-> pdgid \notin Mesons \cup Baryons,
      is_alias     |-> pdgid \notin Mesons \cup Baryons /\ Abs(pdgid) > 20,
      is_mixed     |-> FALSE,
      is_resonance |-> FALSE,
      is_projectile |-> FALSE,
      d            |-> N ]

\* hadridx() and residx(): half-open index ranges on the grid
hadridx(p) == <<p.mix_idx, p.d>>
residxInclusive(p) == <<0, p.mix_idx + 1>>
residx(p)  == <<0, p.mix_idx>>

\* the slice dlen[0:mix_idx] = 0. of inverse_decay_length
ZeroedBelow(mix_idx, i) == i <= mix_idx
ZeroDecayOnError(db, p, E) ==
    IF PyDivRaises(db, p.pdgid) THEN [i \in 1..p.d |-> Zero]
    ELSE [i \in 1..p.d |->
            IF ZeroedBelow(p.mix_idx, i) THEN Zero
            ELSE NpDiv(PyDiv(db, p.pdgid), Num(E[i]))]
\* inverse_decay_length(E): mass / ctau / E with the entries below mix_idx
\* set to zero; any exception gives an array of inf
inverse_decay_length(db, p, E) ==
    IF PyDivRaises(db, p.pdgid) THEN [i \in 1..p.d |-> Inf]
    ELSE [i \in 1..p.d |->
            IF ZeroedBelow(p.mix_idx, i) THEN Zero
            ELSE NpDiv(PyDiv(db, p.pdgid), Num(E[i]))]

\* inverse_interaction_length(): np.ones(d) * get_cs(pdgid) / m_air, in units
\* of mbarn2cm2 / m_air; a KeyError of get_cs propagates
inverse_interaction_length(tab, p) ==
    LET r == get_cs(tab, p.pdgid, FALSE)
    IN  [exc |-> r.exc,
         val |-> IF r.exc # "none" THEN << >>
                 ELSE [i \in 1..p.d |->
                         IF r.kind = "scalar" THEN Num(r.val) ELSE Num(r.val[i])]]

NpAnyPositive(arr) == \E i \in DOMAIN arr : Gt(arr[i], Zero)

\* the test of the pure-resonance branch: np.max(criterium) < cross_over
BelowEverywhere(criterium, cross_over) == Lt(NpMax(criterium), cross_over)
\* the test of the pure-hadron branch: np.min(criterium) > cross_over
AboveEverywhere(criterium, cross_over) == Gt(NpMin(criterium), cross_over)
\* np.where(criterium > cross_over)[0]: the 0-based indices, ascending
WhereAbove(criterium, cross_over) ==
    {i - 1 : i \in {j \in DOMAIN criterium : Gt(criterium[j], cross_over)}}
LastOf(S) == CHOOSE k \in S : \A m \in S : k >= m
\* ...[0]: the first of them
FirstOf(S) == CHOOSE k \in S : \A m \in S : k <= m

KeepFlagsPureHadron(p) == [p EXCEPT !.mix_idx = 0]
\* the assignments of the pure-hadron branch
SetPureHadron(p) ==
    [p EXCEPT !.mix_idx = 0, !.is_mixed = FALSE, !.is_resonance = FALSE]

IsNucleonUnsigned(pdgid) == pdgid \in {2212, 2112}
\* abs(self.pdgid) in [2212, 2112]: protons, neutrons and their antiparticles
IsNucleon(pdgid) == Abs(pdgid) \in {2212, 2112}

\* calculate_mixing_energy(e_grid, no_mix): the particle after the call, the
\* exception raised, and the criterium array it computed (<< >> if none)
calculate_mixing_energy(cfg, db, tab, p, E, no_mix) ==
    LET cross_over == Num(cfg.hybrid_crossover)
    IN
    IF IsNucleon(p.pdgid)
    THEN [p |-> [p EXCEPT !.mix_idx = 0, !.is_mixed = FALSE],
          exc |-> "none", criterium |-> << >>]
    ELSE
    LET ii == inverse_interaction_length(tab, p) IN
    IF ii.exc # "none" THEN [p |-> p, exc |-> ii.exc, criterium |-> << >>]
    ELSE
    LET inv_intlen == ii.val
        inv_declen == inverse_decay_length(db, p, E)
    IN
    IF ~NpAnyPositive(inv_declen) \/ ~NpAnyPositive(inv_intlen)
    THEN [p |-> [p EXCEPT !.mix_idx = 0, !.is_mixed = FALSE, !.is_resonance = FALSE],
          exc |-> "none", criterium |-> << >>]
    ELSE
    LET lint      == [i \in 1..p.d |-> NpDiv(One, inv_intlen[i])]
        ldec      == [i \in 1..p.d |-> NpDiv(One, inv_declen[i])]
        criterium == [i \in 1..p.d |-> NpDiv(ldec[i], lint[i])]
    IN
    IF BelowEverywhere(criterium, cross_over)
    THEN [p |-> [p EXCEPT !.mix_idx = p.d - 1, !.E_mix = E[p.d],
                          !.is_mixed = FALSE, !.is_resonance = TRUE],
          exc |-> "none", criterium |-> criterium]
    ELSE IF AboveEverywhere(criterium, cross_over) \/ no_mix
    THEN [p |-> SetPureHadron(p), exc |-> "none", criterium |-> criterium]
    ELSE IF WhereAbove(criterium, cross_over) = {}
    THEN [p |-> p, exc |-> "IndexError", criterium |-> criterium]
    ELSE LET k == FirstOf(WhereAbove(criterium, cross_over))
         IN  [p |-> [p EXCEPT !.mix_idx = k, !.E_mix = E[k + 1],
                              !.is_mixed = TRUE, !.is_resonance = FALSE],
              exc |-> "none", criterium |-> criterium]

\* the regime state calculate_mixing_energy computes
regime(p) == <<p.mix_idx, p.E_mix, p.is_mixed, p.is_resonance>>

PIdle == [op |-> "init", no_mix |-> FALSE, exc |-> "none", criterium |-> << >>,
          before |-> << >>, rerun |-> FALSE]

InitParticle ==
    /\ cs_dict \in CsTables
    /\ config \in [hybrid_crossover : CrossOvers, dbg : {0}]
    /\ \E name \in {SIBYLL23, QGSJET} :
         LET r == HCS_init(cs_dict, config.dbg, name)
         IN  r.exc = "none" /\ hcs = r.obj
    /\ cs_out = CsIdle
    /\ pythia_db \in PythiaTables
    /\ \E pdgid \in PdgIds :
         /\ critical_energy(pythia_db, pdgid).exc = "none"
         /\ particle = NewParticle(pythia_db, pdgid)
    /\ p_out = PIdle
    /\ yield_dict = << >>
    /\ yields_copy = << >>
    /\ iy = << >>
    /\ y_out = << >>
    /\ loaded = << >>
    /\ decay_file = << >>
    /\ dy = << >>
    /\ d_out = << >>

\* NCEParticle(pdgid, ...): a new particle object replaces the current one;
\* if the constructor raises, no object is made
P_init(pdgid) ==
    LET c == critical_energy(pythia_db, pdgid)
    IN  /\ particle' = IF c.exc = "none" THEN NewParticle(pythia_db, pdgid) ELSE particle
        /\ p_out' = [PIdle EXCEPT !.exc = c.exc, !.before = particle]
        /\ UNCHANGED <<config, pythia_db>>

P_calculate_mixing_energy(no_mix) ==
    LET r == calculate_mixing_energy(config, pythia_db, cs_dict[hcs.cs],
                                     particle, e_grid, no_mix)
    IN  /\ particle' = r.p
        /\ p_out' = [op |-> "calculate_mixing_energy", no_mix |-> no_mix,
                     exc |-> r.exc, criterium |-> r.criterium,
                     before |-> particle,
                     rerun |-> /\ p_out.op = "calculate_mixing_energy"
                               /\ p_out.exc = "none"
                               /\ p_out.no_mix = no_mix]
        /\ UNCHANGED <<config, pythia_db>>

(***************************************************************************)
(* InteractionYields                                                       *)
(***************************************************************************)
\* Yield matrices: rows are the product's energy bins, columns the source's.
\* Entries count halves, so that the factor 14.5 of the rescaling is exact.
Mat(f(_, _))  == [i \in 1..N |-> [j \in 1..N |-> f(i, j)]]
MatZero       == Mat(LAMBDA i, j : 0)
MatDiag(c)    == Mat(LAMBDA i, j : IF i = j THEN c ELSE 0)
MatLow(c)     == Mat(LAMBDA i, j : IF i <= j THEN c ELSE 0)

RECURSIVE SumTo(_, _)
SumTo(f, n) == IF n = 0 THEN 0 ELSE f[n] + SumTo(f, n - 1)
\* np.sum(mat)
NpSum(mat) == SumTo([i \in 1..N |-> SumTo(mat[i], N)], N)

\* weights = np.diag(e_bins[1:] - e_bins[:-1])
weights == [j \in 1..N |-> e_bins[j + 1] - e_bins[j]]
\* mat.dot(np.diag(w)): column j is multiplied by w[j]
DotDiag(mat, w) == Mat(LAMBDA i, j : mat[i][j] * w[j])

\* the charm model names and an unsupported one
MRS         == <<"MRS">>
sibyll23_pl == <<"sibyll23_pl">>
OtherCharm  == <<"other">>
\* the dictionary object that copy() makes
Own == <<"copy">>

\* charm_modids: the identifiers of the charmed products, in list order
charm_modids == <<411, 421>>

\* MRS_charm.get_yield_matrix(proj, chid)
MRSYield(proj, chid) == IF proj = 211 /\ chid = 421 THEN MatZero ELSE MatDiag(6)

\* the unpickled yield dictionaries
YSibyll ==
    (<<2212, 211>> :> MatLow(2)) @@ (<<2212, 11>> :> MatLow(2))
    @@ (<<2212, 411>> :> MatDiag(2)) @@ (<<211, 211>> :> MatLow(4))
    @@ (<<211, 321>> :> MatZero)
YPl ==
    (<<2212, 211>> :> MatLow(2)) @@ (<<2212, 411>> :> MatLow(2))
    @@ (<<2212, 421>> :> MatZero) @@ (<<211, 411>> :> MatDiag(4))
    @@ (<<211, 421>> :> MatDiag(2))
YPlShort ==
    (<<2212, 211>> :> MatLow(2)) @@ (<<2212, 411>> :> MatLow(2))
    @@ (<<2212, 421>> :> MatDiag(2)) @@ (<<211, 411>> :> MatDiag(4))
YQgs ==
    (<<2212, 211>> :> MatLow(4)) @@ (<<-211, 211>> :> MatLow(2))
    @@ (<<2212, 22>> :> MatDiag(2))
YDpm ==
    (<<2212, 211>> :> MatDiag(2)) @@ (<<2212, 421>> :> MatZero)

YieldTables ==
    { (SIBYLL23 :> YSibyll) @@ (SIBYLL23_rc1_pl :> YPl) @@ (QGSJET :> YQgs)
          @@ (DPMJET :> YDpm),
      (SIBYLL23 :> YSibyll) @@ (SIBYLL23_rc1_pl :> YPlShort) @@ (QGSJET :> YQgs),
      (SIBYLL23 :> YSibyll) @@ (QGSJET :> YQgs) }
YieldNames == {SIBYLL23, SIBYLL23_rc1_pl, QGSJET, DPMJET}

\* cross-section tables seen by the injection: positive curves, with and
\* without a SIBYLL2.3_pp or SIBYLL2.3 entry
YieldCsTables ==
    { (SIBYLL23 :> CsAir) @@ (SIBYLL23_pp :> CsPP) @@ (QGSJET :> CsAir),
      (SIBYLL23 :> CsAir) @@ (QGSJET :> CsAir),
      (QGSJET :> CsAir) }

\* identifiers used in queries
SourceIds  == {2212, 211, -211, 321}
ProductIds == {211, 11, 22, 321, 411, 421}

\* ascending sequence of a finite set of integers (np.unique)
RECURSIVE SortedSeq(_)
SortedSeq(S) ==
    IF S = {} THEN << >>
    ELSE LET m == CHOOSE x \in S : \A y \in S : x <= y
         IN  <<m>> \o SortedSeq(S \ {m})

Elems(seq) == {seq[i] : i \in DOMAIN seq}

ExistsAnySum(mat, sec) == NpSum(mat) > 0
\* the existence rule of the index: np.sum(mat) > 0 and the product is
\* neither an electron nor a photon
Exists(mat, sec) == NpSum(mat) > 0 /\ Abs(sec) \notin {11, 22}

SecondariesTwice(dict, projectile) ==
    LET once == SortedSeq({k[2] : k \in {q \in DOMAIN dict :
                               q[1] = projectile /\ Exists(dict[q], q[2])}})
    IN  once \o once
\* the list secondary_dict[projectile] that the loop over the dictionary
\* builds; the dictionary is iterated in a fixed order of its keys
Secondaries(dict, projectile) ==
    SortedSeq({k[2] : k \in {q \in DOMAIN dict :
                               q[1] = projectile /\ Exists(dict[q], q[2])}})

\* _gen_index(yield_dict): projectiles and secondary_dict.  The assertion
\* cannot fail: the keys of a dictionary are distinct.
gen_index(dict) ==
    LET projectiles == {k[1] : k \in DOMAIN dict}
    IN  [projectiles    |-> projectiles,
         secondary_dict |-> [proj \in projectiles |-> Secondaries(dict, proj)]]

\* the dictionary object a reference denotes
DictAt(ref) == IF ref = Own THEN yields_copy ELSE yield_dict[ref]

\* InteractionYields after _load(), before a model is selected
NewYields ==
    [iam |-> None, charm_model |-> None, yields |-> None,
     projectiles |-> {}, secondary_dict |-> << >>, nspec |-> 0]

KeepYields(obj, interaction_model) ==
    IF obj.yields = None THEN interaction_model ELSE obj.yields
\* self.yields = self.yield_dict[interaction_model]: a reference to the
\* dictionary of the model
SelectedYields(obj, interaction_model) == interaction_model

\* set_interaction_model(interaction_model, force)
set_interaction_model(obj, interaction_model, force) ==
    IF ~force /\ interaction_model = obj.iam
    THEN [obj |-> obj, exc |-> "none"]
    ELSE IF interaction_model \notin DOMAIN yield_dict
    THEN [obj |-> obj, exc |-> "Exception"]
    ELSE LET idx == gen_index(yield_dict[interaction_model])
         IN  [obj |-> [iam            |-> interaction_model,
                       charm_model    |-> None,
                       yields         |-> SelectedYields(obj, interaction_model),
                       projectiles    |-> idx.projectiles,
                       secondary_dict |-> idx.secondary_dict,
                       nspec          |-> Cardinality(idx.projectiles)],
              exc |-> "none"]

\* is_yield(projectile, daughter); before a model is selected the index
\* attributes do not exist
is_yield(obj, projectile, daughter) ==
    IF obj.iam = None THEN [exc |-> "AttributeError", val |-> FALSE]
    ELSE [exc |-> "none",
          val |-> /\ projectile \in obj.projectiles
                  /\ daughter \in Elems(obj.secondary_dict[projectile])]

\* get_y_matrix(projectile, daughter)
get_y_matrix(obj, projectile, daughter) ==
    IF obj.yields = None THEN [exc |-> "AttributeError", val |-> << >>]
    ELSE IF <<projectile, daughter>> \notin DOMAIN DictAt(obj.yields)
    THEN [exc |-> "KeyError", val |-> << >>]
    ELSE [exc |-> "none",
          val |-> DotDiag(DictAt(obj.yields)[<<projectile, daughter>>], weights)]

\* value at grid point j of a get_cs outcome (a scalar is broadcast)
CsAt(r, j) == IF r.kind = "scalar" THEN r.val ELSE r.val[j]

\* yield_dict['SIBYLL2.3_rc1_pl'][(proj, chid)].dot(cs_scale) * 14.5 with
\* cs_scale = np.diag(cs_h_p.get_cs(proj) / cs_h_air.get_cs(proj))
Rescaled(mat, pp, air) ==
    Mat(LAMBDA i, j :
          LET ratio == NpDiv(Num(CsAt(pp, j)), Num(CsAt(air, j)))
          IN  (mat[i][j] * ratio[1] * 29) \div (ratio[2] * 2))

\* the exception, if any, of computing cs_scale for a projectile
ScaleExc(h_p, h_air, proj) ==
    LET pp  == get_cs(cs_dict[h_p.cs], proj, FALSE)
        air == get_cs(cs_dict[h_air.cs], proj, FALSE)
    IN  IF pp.exc # "none" THEN pp.exc
        ELSE IF air.exc # "none" THEN air.exc
        ELSE IF pp.kind = "scalar" /\ air.kind = "scalar" THEN "ZeroDivisionError"
        ELSE "none"

\* the exception, if any, of the pass of the sibyll23_pl loop for (proj, chid)
PlExc(h_p, h_air, proj, chid) ==
    IF ScaleExc(h_p, h_air, proj) # "none" THEN ScaleExc(h_p, h_air, proj)
    ELSE IF SIBYLL23_rc1_pl \notin DOMAIN yield_dict THEN "KeyError"
    ELSE IF <<proj, chid>> \notin DOMAIN yield_dict[SIBYLL23_rc1_pl] THEN "KeyError"
    ELSE "none"

\* the (proj, chid) pairs in the order of the two nested loops
LoopPairs(projectiles) ==
    LET projs == SortedSeq(projectiles)
        nc    == Len(charm_modids)
    IN  [n \in 1..(Len(projs) * nc) |->
            <<projs[((n - 1) \div nc) + 1], charm_modids[((n - 1) % nc) + 1]>>]

\* d with the records of the keys in written replaced by rec(key)
Overwrite(d, written, rec(_)) ==
    [k \in DOMAIN d \cup written |-> IF k \in written THEN rec(k) ELSE d[k]]

\* the body of inject_custom_charm_model after the copy: the dictionary d
\* with the records written until the loops end or raise
InjectRecords(obj, model, d) ==
    IF model = MRS
    THEN LET cs == HCS_init(cs_dict, config.dbg, obj.iam)
         IN  IF cs.exc # "none" THEN [dict |-> d, exc |-> cs.exc]
             ELSE [dict |-> Overwrite(d, Elems(LoopPairs(obj.projectiles)),
                                      LAMBDA k : MRSYield(k[1], k[2])),
                   exc  |-> "none"]
    ELSE IF model = sibyll23_pl
    THEN LET cs_h_air == HCS_init(cs_dict, config.dbg, SIBYLL23)
             cs_h_p   == HCS_init(cs_dict, config.dbg, SIBYLL23_pp)
         IN  IF cs_h_air.exc # "none" THEN [dict |-> d, exc |-> cs_h_air.exc]
             ELSE IF cs_h_p.exc # "none" THEN [dict |-> d, exc |-> cs_h_p.exc]
             ELSE
             LET pairs  == LoopPairs(obj.projectiles)
                 failed == {n \in DOMAIN pairs :
                              PlExc(cs_h_p.obj, cs_h_air.obj,
                                    pairs[n][1], pairs[n][2]) # "none"}
                 stop   == IF failed = {} THEN Len(pairs) + 1
                           ELSE CHOOSE n \in failed : \A m \in failed : n <= m
                 done   == {pairs[n] : n \in 1..(stop - 1)}
             IN  [dict |-> Overwrite(d, done,
                             LAMBDA k : Rescaled(yield_dict[SIBYLL23_rc1_pl][k],
                                 get_cs(cs_dict[cs_h_p.obj.cs], k[1], FALSE),
                                 get_cs(cs_dict[cs_h_air.obj.cs], k[1], FALSE))),
                  exc  |-> IF failed = {} THEN "none"
                           ELSE PlExc(cs_h_p.obj, cs_h_air.obj,
                                      pairs[stop][1], pairs[stop][2])]
    ELSE [dict |-> d, exc |-> "NotImplementedError"]

SameObject(ref) == ref
\* self.yields = copy(self.yields): the reference to the new dictionary object
CopyTarget(ref) == Own

NeverReload(charm_model, model) == FALSE
\* if self.charm_model and self.charm_model != model: the base records are
\* reloaded before the injection
NeedsReload(charm_model, model) == charm_model # None /\ charm_model # model

YIdle == [op |-> "init", name |-> None, force |-> FALSE, model |-> None,
          projectile |-> 0, daughter |-> 0, exc |-> "none",
          has |-> FALSE, mat |-> << >>, prev_charm |-> None, prev_iam |-> None,
          before |-> << >>]

InitYield ==
    /\ yield_dict \in YieldTables
    /\ loaded = yield_dict
    /\ yields_copy = << >>
    /\ cs_dict \in YieldCsTables
    /\ config = [hybrid_crossover |-> 1, dbg |-> 0]
    /\ hcs = [iam |-> None, cs |-> None]
    /\ cs_out = CsIdle
    /\ iy = NewYields
    /\ y_out = YIdle
    /\ pythia_db = << >>
    /\ particle = << >>
    /\ p_out = << >>
    /\ decay_file = << >>
    /\ dy = << >>
    /\ d_out = << >>

\* the active records, index and label of the object as a call finds them
Snapshot(obj) ==
    [records        |-> IF obj.yields = None THEN << >> ELSE DictAt(obj.yields),
     projectiles    |-> obj.projectiles,
     secondary_dict |-> obj.secondary_dict,
     charm_model    |-> obj.charm_model]

Y_set_interaction_model(name, force) ==
    LET r == set_interaction_model(iy, name, force)
    IN  /\ iy' = r.obj
        /\ y_out' = [YIdle EXCEPT !.op = "set_interaction_model", !.name = name,
                                  !.force = force, !.exc = r.exc,
                                  !.prev_charm = iy.charm_model,
                                  !.prev_iam = iy.iam]
        /\ UNCHANGED <<yield_dict, yields_copy, loaded>>

Y_inject_custom_charm_model(model) ==
    LET out(exc) == [YIdle EXCEPT !.op = "inject_custom_charm_model",
                                  !.model = model, !.exc = exc,
                                  !.prev_charm = iy.charm_model,
                                  !.before = Snapshot(iy)]
        reloaded == IF NeedsReload(iy.charm_model, model)
                    THEN set_interaction_model(iy, iy.iam, TRUE).obj
                    ELSE iy
    IN
    IF model = None
    THEN /\ y_out' = out("none")
         /\ UNCHANGED <<yield_dict, yields_copy, loaded, iy>>
    ELSE IF reloaded.yields = None
    THEN /\ y_out' = out("AttributeError")
         /\ UNCHANGED <<yield_dict, yields_copy, loaded, iy>>
    ELSE
    LET target == CopyTarget(reloaded.yields)
        copied == [reloaded EXCEPT !.yields = target]
        r      == InjectRecords(copied, model, DictAt(reloaded.yields))
        idx    == gen_index(r.dict)
    IN  /\ IF target = Own
           THEN yields_copy' = r.dict /\ UNCHANGED yield_dict
           ELSE yield_dict' = [yield_dict EXCEPT ![target] = r.dict]
                /\ UNCHANGED yields_copy
        /\ iy' = IF r.exc # "none" THEN copied
                 ELSE [copied EXCEPT !.projectiles = idx.projectiles,
                                     !.secondary_dict = idx.secondary_dict,
                                     !.charm_model = model]
        /\ y_out' = out(r.exc)
        /\ UNCHANGED loaded

Y_is_yield(projectile, daughter) ==
    LET r == is_yield(iy, projectile, daughter)
    IN  /\ y_out' = [YIdle EXCEPT !.op = "is_yield", !.projectile = projectile,
                                  !.daughter = daughter, !.exc = r.exc,
                                  !.has = r.val, !.prev_charm = iy.charm_model]
        /\ UNCHANGED <<yield_dict, yields_copy, loaded, iy>>

Y_get_y_matrix(projectile, daughter) ==
    LET r == get_y_matrix(iy, projectile, daughter)
    IN  /\ y_out' = [YIdle EXCEPT !.op = "get_y_matrix", !.projectile = projectile,
                                  !.daughter = daughter, !.exc = r.exc,
                                  !.has = is_yield(iy, projectile, daughter).val,
                                  !.mat = r.val, !.prev_charm = iy.charm_model]
        /\ UNCHANGED <<yield_dict, yields_copy, loaded, iy>>

CharmModels == {None, MRS, sibyll23_pl, OtherCharm}

NextYield ==
    \/ \E name \in YieldNames, force \in BOOLEAN :
         Y_set_interaction_model(name, force) /\ UNCHANGED <<csVars, pVars, dVars>>
    \/ \E model \in CharmModels :
         Y_inject_custom_charm_model(model) /\ UNCHANGED <<csVars, pVars, dVars>>
    \/ \E s \in SourceIds, p \in ProductIds :
         Y_is_yield(s, p) /\ UNCHANGED <<csVars, pVars, dVars>>
    \/ \E s \in SourceIds, p \in ProductIds :
         Y_get_y_matrix(s, p) /\ UNCHANGED <<csVars, pVars, dVars>>

(***************************************************************************)
(* DecayYields                                                             *)
(***************************************************************************)
\* mat.T
Transpose(mat) == Mat(LAMBDA i, j : mat[j][i])

\* the pickled decay dictionaries: the records and the order in which
\* iteritems() visits the keys
DMuons ==
    [dict  |-> (<<13, 14>> :> MatLow(2)) @@ (<<13, 11>> :> MatDiag(2))
               @@ (<<13, 22>> :> MatZero) @@ (<<-13, -11>> :> MatLow(4))
               @@ (<<-13, -14>> :> MatDiag(4)) @@ (<<211, -13>> :> MatDiag(2)),
     order |-> << <<13, 14>>, <<211, -13>>, <<-13, -11>>, <<13, 22>>,
                  <<13, 11>>, <<-13, -14>> >>]
DMuonsReordered ==
    [dict  |-> DMuons.dict,
     order |-> << <<-13, -14>>, <<13, 11>>, <<13, 22>>, <<-13, -11>>,
                  <<211, -13>>, <<13, 14>> >>]
\* a file that holds records of alias ids of its own
DWithAliases ==
    [dict  |-> (<<13, 14>> :> MatLow(2)) @@ (<<-13, -14>> :> MatLow(4))
               @@ (<<-13, -11>> :> MatDiag(2)) @@ (<<7013, 14>> :> MatDiag(6))
               @@ (<<7013, -14>> :> MatLow(6)) @@ (<<-7113, -11>> :> MatZero),
     order |-> << <<7013, -14>>, <<-13, -14>>, <<13, 14>>, <<-7113, -11>>,
                  <<7013, 14>>, <<-13, -11>> >>]
\* files without the records of one or of both muons
DNoAntiMuon ==
    [dict  |-> (<<13, 14>> :> MatLow(2)) @@ (<<211, -13>> :> MatDiag(2)),
     order |-> << <<211, -13>>, <<13, 14>> >>]
DNoMuons ==
    [dict  |-> (<<211, 14>> :> MatDiag(2)),
     order |-> << <<211, 14>> >>]
DecayFiles == {DMuons, DMuonsReordered, DWithAliases, DNoAntiMuon, DNoMuons}

\* identifiers used in queries
MotherIds   == {13, -13, 7013, -7013, 7113, -7113, 7213, -7213, 7313, 211}
DaughterIds == {11, -11, 14, -14, 22, -13}

\* the loop over decay_dict.iteritems() from the n-th item on: a daughter is
\* appended to the list of its mother if its matrix has a positive sum and
\* the list does not hold it yet
RECURSIVE DaughterLoop(_, _, _, _)
DaughterLoop(dict, order, daughter_dict, n) ==
    IF n > Len(order) THEN daughter_dict
    ELSE LET mother   == order[n][1]
             daughter == order[n][2]
         IN  DaughterLoop(dict, order,
                 IF /\ NpSum(dict[order[n]]) > 0
                    /\ daughter \notin Elems(daughter_dict[mother])
                 THEN [daughter_dict EXCEPT ![mother] = Append(@, daughter)]
                 ELSE daughter_dict,
                 n + 1)

\* the ids of the alias loop, in list order
muon_aliases == <<7013, 7113, 7213>>

AliasSourceUnsigned(id) == 13
\* the muon whose entries an alias id takes over: 13 for alias, -13 for -alias
AliasSource(id) == IF id > 0 THEN 13 ELSE 0 - 13

\* daughter_dict[id] = daughter_dict[muon] and, for d in daughter_dict[id],
\* decay_dict[(id, d)] = decay_dict[(muon, d)]
AliasEntries(obj, id) ==
    LET src == AliasSource(id)
        lst == obj.daughter_dict[src]
        new == {<<id, lst[n]>> : n \in DOMAIN lst}
    IN  [obj EXCEPT
            !.daughter_dict = [m \in DOMAIN obj.daughter_dict \cup {id} |->
                                  IF m = id THEN lst ELSE obj.daughter_dict[m]],
            !.decay_dict = [k \in DOMAIN obj.decay_dict \cup new |->
                                  IF k \in new THEN obj.decay_dict[<<src, k[2]>>]
                                  ELSE obj.decay_dict[k]]]

\* the alias loop from the n-th alias on
RECURSIVE AliasLoop(_, _)
AliasLoop(obj, n) ==
    IF n > Len(muon_aliases) THEN obj
    ELSE AliasLoop(AliasEntries(AliasEntries(obj, muon_aliases[n]),
                                0 - muon_aliases[n]),
                   n + 1)

\* _gen_index(): mothers, daughter_dict and the alias entries; a missing
\* muon or antimuon raises KeyError in the first pass of the alias loop
DY_gen_index(obj) ==
    LET mothers == {k[1] : k \in DOMAIN obj.decay_dict}
        indexed == [obj EXCEPT
                      !.mothers = SortedSeq(mothers),
                      !.daughter_dict =
                          DaughterLoop(obj.decay_dict, obj.order,
                                       [m \in mothers |-> << >>], 1)]
    IN  IF 13 \notin mothers \/ (0 - 13) \notin mothers
        THEN [obj |-> indexed, exc |-> "KeyError"]
        ELSE [obj |-> AliasLoop(indexed, 1), exc |-> "none"]

\* no DecayYields object
NoDecayYields ==
    [exists |-> FALSE, weights |-> << >>, decay_dict |-> << >>, order |-> << >>,
     mothers |-> << >>, daughter_dict |-> << >>, particle_keys |-> << >>]

\* DecayYields(weights): _load(), _gen_index(), particle_keys = mothers
DY_init(file, w) ==
    LET r == DY_gen_index([NoDecayYields EXCEPT !.exists = TRUE, !.weights = w,
                                                !.decay_dict = file.dict,
                                                !.order = file.order])
    IN  [obj |-> [r.obj EXCEPT !.particle_keys = r.obj.mothers], exc |-> r.exc]

\* get_d_matrix(mother, daughter)
get_d_matrix(obj, mother, daughter) ==
    IF <<mother, daughter>> \notin DOMAIN obj.decay_dict
    THEN [exc |-> "KeyError", val |-> << >>]
    ELSE [exc |-> "none",
          val |-> DotDiag(Transpose(obj.decay_dict[<<mother, daughter>>]),
                          obj.weights)]

\* is_daughter(mother, daughter)
is_daughter(obj, mother, daughter) ==
    ~ ( \/ mother \notin DOMAIN obj.daughter_dict
        \/ daughter \notin Elems(obj.daughter_dict[mother]) )

\* daughters(mother)
daughters(obj, mother) ==
    IF mother \notin DOMAIN obj.daughter_dict THEN << >>
    ELSE obj.daughter_dict[mother]

DIdle == [op |-> "init", mother |-> 0, daughter |-> 0, exc |-> "none",
          mat |-> << >>, list |-> << >>, has |-> FALSE]

InitDecay ==
    /\ decay_file \in DecayFiles
    /\ dy = NoDecayYields
    /\ d_out = DIdle
    /\ cs_dict = << >>
    /\ hcs = << >>
    /\ cs_out = << >>
    /\ config = [hybrid_crossover |-> 1, dbg |-> 0]
    /\ pythia_db = << >>
    /\ particle = << >>
    /\ p_out = << >>
    /\ yield_dict = << >>
    /\ yields_copy = << >>
    /\ iy = << >>
    /\ y_out = << >>
    /\ loaded = << >>

\* DecayYields(weights): if the constructor raises, no object is made
D_init ==
    LET r == DY_init(decay_file, weights)
    IN  /\ dy' = IF r.exc = "none" THEN r.obj ELSE dy
        /\ d_out' = [DIdle EXCEPT !.exc = r.exc]
        /\ UNCHANGED decay_file

D_get_d_matrix(mother, daughter) ==
    LET r == get_d_matrix(dy, mother, daughter)
    IN  /\ dy.exists
        /\ d_out' = [DIdle EXCEPT !.op = "get_d_matrix", !.mother = mother,
                                  !.daughter = daughter, !.exc = r.exc,
                                  !.mat = r.val,
                                  !.has = is_daughter(dy, mother, daughter)]
        /\ UNCHANGED <<decay_file, dy>>

D_is_daughter(mother, daughter) ==
    /\ dy.exists
    /\ d_out' = [DIdle EXCEPT !.op = "is_daughter", !.mother = mother,
                              !.daughter = daughter,
                              !.has = is_daughter(dy, mother, daughter)]
    /\ UNCHANGED <<decay_file, dy>>

D_daughters(mother) ==
    /\ dy.exists
    /\ d_out' = [DIdle EXCEPT !.op = "daughters", !.mother = mother,
                              !.list = daughters(dy, mother)]
    /\ UNCHANGED <<decay_file, dy>>

NextDecay ==
    \/ D_init /\ UNCHANGED <<csVars, pVars, yVars>>
    \/ \E m \in MotherIds, d \in DaughterIds :
         D_get_d_matrix(m, d) /\ UNCHANGED <<csVars, pVars, yVars>>
    \/ \E m \in MotherIds, d \in DaughterIds :
         D_is_daughter(m, d) /\ UNCHANGED <<csVars, pVars, yVars>>
    \/ \E m \in MotherIds :
         D_daughters(m) /\ UNCHANGED <<csVars, pVars, yVars>>

NextCS ==
    \/ \E name \in CsNames :
         CS_set_interaction_model(name) /\ UNCHANGED <<pVars, yVars, dVars>>
    \/ \E x \in Projectiles, mbarn \in BOOLEAN :
         CS_get_cs(x, mbarn) /\ UNCHANGED <<pVars, yVars, dVars>>

NextParticle ==
    \/ \E pdgid \in PdgIds : P_init(pdgid) /\ UNCHANGED <<csVars, yVars, dVars>>
    \/ \E no_mix \in BOOLEAN :
         P_calculate_mixing_energy(no_mix) /\ UNCHANGED <<csVars, yVars, dVars>>

SpecCS == InitCS /\ [][NextCS]_vars
SpecParticle == InitParticle /\ [][NextParticle]_vars
SpecYield == InitYield /\ [][NextYield]_vars
SpecDecay == InitDecay /\ [][NextDecay]_vars


(***************************************************************************)
(* Properties of the cross-section fallback (SpecCS)                       *)
(***************************************************************************)
ActiveTab == cs_dict[hcs.cs]
HasPiKP   == {211, 321, 2212} \subseteq DOMAIN ActiveTab
ScaleOf(mbarn) == IF mbarn THEN 0 ELSE mbarn2cm2

\* the outcome is the tabulated curve of key, in the unit asked for
IsCurveOf(out, key) ==
    /\ out.exc = "none"
    /\ out.kind = "curve"
    /\ out.val = ActiveTab[key]
    /\ out.exp = ScaleOf(out.mbarn)
\* the outcome is zero at every grid point
IsZeroCurve(out) ==
    /\ out.exc = "none"
    /\ \/ out.kind = "scalar" /\ out.val = 0
       \/ out.kind = "curve" /\ \A i \in 1..N : out.val[i] = 0

\* the hierarchy as the specification lists it
FallbackRule(out) ==
    LET a == Abs(out.projectile)
    IN  IF a \in {411, 421, 431, 15} THEN IsCurveOf(out, 321)
        ELSE IF a \in {4332, 4232, 4132} THEN IsCurveOf(out, 2212)
        ELSE IF 2000 < a /\ a < 5000 THEN IsCurveOf(out, 2212)
        ELSE IF (11 < a /\ a < 17) \/ (7000 < a /\ a < 7500) THEN IsZeroCurve(out)
        ELSE IsCurveOf(out, 211)

\* C5: with 211, 321 and 2212 tabulated, get_cs of an identifier X that is
\* not a key of the table follows the fallback hierarchy (kaon, proton,
\* proton, zero, pion in this order, boundaries giving the pion curve).
C5_FallbackHierarchy ==
    (cs_out.op = "get_cs" /\ HasPiKP /\ cs_out.projectile \notin DOMAIN ActiveTab)
        => FallbackRule(cs_out)

\* The hierarchy for identifiers whose magnitude is not tabulated either
\* (the cases the tabulated branch does not take).
FallbackHierarchyUntabulatedMagnitude ==
    (cs_out.op = "get_cs" /\ HasPiKP /\ Abs(cs_out.projectile) \notin DOMAIN ActiveTab)
        => FallbackRule(cs_out)

\* C6: with 211, 321 and 2212 tabulated, get_cs raises for no identifier.
C6_GetCsNeverRaises ==
    (cs_out.op = "get_cs" /\ HasPiKP) => cs_out.exc = "none"

(***************************************************************************)
(* Properties of the regime classification (SpecParticle)                  *)
(***************************************************************************)
cross_over  == Num(config.hybrid_crossover)
Classified  == p_out.op = "calculate_mixing_energy"
NonNucleon  == Abs(particle.pdgid) \notin {2212, 2112}
HasCriterium == Classified /\ p_out.criterium # << >>
Finite(a)   == a[2] # 0
PureHadron(p)    == p.mix_idx = 0 /\ ~p.is_mixed /\ ~p.is_resonance
PureResonance(p) == /\ p.mix_idx = N - 1
                    /\ p.E_mix = e_grid[N]
                    /\ ~p.is_mixed
                    /\ p.is_resonance

\* C7 as stated: a second run with the same inputs leaves mixing index,
\* mixing energy, is_mixed and is_resonance as the run before set them.
C7_RerunKeepsRegime ==
    (Classified /\ p_out.rerun) => regime(particle) = regime(p_out.before)

\* C7 amended: the classification depends on the previous state through the
\* mixing index only: a run that starts from mixing index 0 sets mixing
\* index, is_mixed and is_resonance (and raises) exactly as the first run on
\* the newly constructed particle does with the same inputs.
C7_DependsOnMixIdxOnly ==
    (Classified /\ p_out.before.mix_idx = 0) =>
        LET first == calculate_mixing_energy(config, pythia_db, ActiveTab,
                         NewParticle(pythia_db, particle.pdgid), e_grid, p_out.no_mix)
        IN  /\ p_out.exc = first.exc
            /\ particle.mix_idx = first.p.mix_idx
            /\ particle.is_mixed = first.p.is_mixed
            /\ particle.is_resonance = first.p.is_resonance

\* a rerun that started from mixing index 0 with stale regime fields
C7_Witness ==
    /\ Classified /\ p_out.rerun /\ p_out.exc = "none"
    /\ p_out.before.mix_idx = 0
    /\ p_out.before.is_mixed
    /\ ~particle.is_mixed

\* C8: positive interaction and decay lengths and a ratio that is at or below
\* the threshold at every grid point give pure resonance without error.
C8_NeverExceedsIsResonance ==
    ( /\ HasCriterium /\ NonNucleon
      /\ \A i \in 1..N : /\ Finite(p_out.criterium[i])
                         /\ Gt(p_out.criterium[i], Zero)
                         /\ Le(p_out.criterium[i], cross_over) )
        => (p_out.exc = "none" /\ PureResonance(particle))

\* the ratio is at or below the threshold before 0-based index k and above
\* it from k on
CrossesAt(crit, k) ==
    /\ \A i \in 1..k : Le(crit[i], cross_over)
    /\ \A i \in (k + 1)..N : Gt(crit[i], cross_over)

\* C9: with mixing enabled, a ratio that is at or below the threshold before
\* index k (0 < k < N) and above it from k on gives mixed at k with mixing
\* energy grid[k]; a ratio above the threshold everywhere gives pure hadron
\* with mixing index 0.
C9_FirstCrossing ==
    (HasCriterium /\ NonNucleon) =>
        /\ \A k \in 1..(N - 1) :
             (~p_out.no_mix /\ CrossesAt(p_out.criterium, k)) =>
                 /\ p_out.exc = "none"
                 /\ particle.mix_idx = k
                 /\ particle.E_mix = e_grid[k + 1]
                 /\ particle.is_mixed
                 /\ ~particle.is_resonance
        /\ CrossesAt(p_out.criterium, 0) =>
                 (p_out.exc = "none" /\ PureHadron(particle))

\* a mixed classification at index 1 with a ratio exactly at the threshold
\* below the crossing
C9_Witness ==
    /\ HasCriterium /\ NonNucleon /\ ~p_out.no_mix
    /\ CrossesAt(p_out.criterium, 2)
    /\ p_out.criterium[2] = cross_over
    /\ particle.is_mixed /\ particle.mix_idx = 2

ZeroLifetime == ~pythia_db[particle.pdgid].known \/ pythia_db[particle.pdgid].ctau = 0
CsLookup     == get_cs(ActiveTab, particle.pdgid, FALSE)
CsZeroOnGrid == IsZeroCurve(CsLookup)
CsPositiveSomewhere ==
    /\ CsLookup.exc = "none" /\ CsLookup.kind = "curve"
    /\ \E i \in 1..N : CsLookup.val[i] > 0

IndexRange(r) == {i \in 0..(N - 1) : r[1] <= i /\ i < r[2]}
WholeGrid == 0..(N - 1)

\* C11 as stated: after classification a pure-hadron particle has the whole
\* grid as hadron range and an empty resonance range, a pure-resonance
\* particle has the whole grid as resonance range and an empty hadron range,
\* and the two ranges of every particle are disjoint.
C11_RegimeRanges ==
    (Classified /\ p_out.exc = "none") =>
        /\ PureHadron(particle) =>
              /\ IndexRange(hadridx(particle)) = WholeGrid
              /\ IndexRange(residx(particle)) = {}
        /\ PureResonance(particle) =>
              /\ IndexRange(residx(particle)) = WholeGrid
              /\ IndexRange(hadridx(particle)) = {}
        /\ IndexRange(residx(particle)) \cap IndexRange(hadridx(particle)) = {}

\* C11 amended: a pure-hadron particle has the whole grid as hadron range and
\* an empty resonance range; a pure-resonance particle has mixing index N - 1,
\* so its resonance range is [0, N - 1) and its hadron range is the last grid
\* index alone; the two ranges of every particle are disjoint and together
\* cover the grid.
C11_RegimeRangesLastIndex ==
    (Classified /\ p_out.exc = "none") =>
        /\ PureHadron(particle) =>
              /\ IndexRange(hadridx(particle)) = WholeGrid
              /\ IndexRange(residx(particle)) = {}
        /\ PureResonance(particle) =>
              /\ IndexRange(residx(particle)) = 0..(N - 2)
              /\ IndexRange(hadridx(particle)) = {N - 1}
        /\ IndexRange(residx(particle)) \cap IndexRange(hadridx(particle)) = {}
        /\ IndexRange(residx(particle)) \cup IndexRange(hadridx(particle)) = WholeGrid

\* a particle classified as pure resonance whose hadron range is not empty
C11_Witness ==
    /\ Classified /\ p_out.exc = "none"
    /\ PureResonance(particle)
    /\ IndexRange(hadridx(particle)) # {}

\* C13: a particle whose identifier magnitude is 2212 or 2112 is classified
\* pure hadron (mixing index 0, is_mixed false, is_resonance false) without
\* error, whatever the cross-section table, the lifetime data, the threshold
\* and no_mix are, and however many times the classification is run.
C13_NucleonPureHadron ==
    (Classified /\ Abs(particle.pdgid) \in {2212, 2112}) =>
        (p_out.exc = "none" /\ PureHadron(particle))

\* a repeated classification of an antineutron whose lifetime data alone
\* would make it a pure resonance
C13_Witness ==
    /\ Classified /\ p_out.rerun
    /\ particle.pdgid = 0 - 2112
    /\ ZeroLifetime /\ CsPositiveSomewhere
    /\ PureHadron(particle)


(***************************************************************************)
(* Properties of the interaction yield table (SpecYield)                   *)
(***************************************************************************)
ModelSelected == iy.iam # None
ActiveRecords == DictAt(iy.yields)
\* the last call was a model switch (not the "already loaded" no-op) or an
\* injection, and it succeeded
AfterSwitchOrInjection ==
    /\ y_out.exc = "none"
    /\ ModelSelected
    /\ \/ y_out.op = "inject_custom_charm_model" /\ y_out.model # None
       \/ /\ y_out.op = "set_interaction_model"
          /\ (y_out.force \/ y_out.name # y_out.prev_iam)
IsSquare(mat) ==
    /\ DOMAIN mat = 1..N
    /\ \A i \in 1..N : DOMAIN mat[i] = 1..N

\* a table on which the model was selected and nothing was ever injected
NeverInjected(model) ==
    [iam            |-> model,
     charm_model    |-> None,
     records        |-> loaded[model],
     projectiles    |-> {k[1] : k \in DOMAIN loaded[model]},
     secondary_dict |-> gen_index(loaded[model]).secondary_dict]

\* C1: after select_model(M, force=true), whatever was injected before, the
\* active records, the index and the charm-model label are those of a table
\* on which M was selected and nothing was injected; the per-model base
\* record sets are never changed.
C1_ReloadRestoresBase ==
    /\ yield_dict = loaded
    /\ ( /\ y_out.op = "set_interaction_model"
         /\ y_out.force
         /\ y_out.exc = "none" )
        => LET ref == NeverInjected(y_out.name)
           IN  /\ iy.iam = ref.iam
               /\ iy.charm_model = ref.charm_model
               /\ ActiveRecords = ref.records
               /\ iy.projectiles = ref.projectiles
               /\ iy.secondary_dict = ref.secondary_dict

\* a forced reload right after a submodel was active whose records differ
\* from the base records
C1_Witness ==
    /\ y_out.op = "set_interaction_model" /\ y_out.force /\ y_out.exc = "none"
    /\ y_out.prev_charm # None
    /\ yields_copy # << >>
    /\ yields_copy # loaded[y_out.name]

\* C2: for every source of the index, every listed product satisfies
\* is_yield and no product is listed twice.
C2_IndexIntegrity ==
    ModelSelected =>
        \A src \in DOMAIN iy.secondary_dict :
            LET lst == iy.secondary_dict[src]
            IN  /\ \A n \in DOMAIN lst : is_yield(iy, src, lst[n]).val
                /\ \A m, n \in DOMAIN lst : lst[m] = lst[n] => m = n

\* an index rebuilt by an injection, with a source that lists several products
C2_Witness ==
    /\ y_out.op = "inject_custom_charm_model" /\ y_out.exc = "none"
    /\ iy.charm_model # None
    /\ \E src \in DOMAIN iy.secondary_dict : Len(iy.secondary_dict[src]) >= 3

\* C3 as stated: once a model is selected, get_y_matrix raises where is_yield
\* is false, and where is_yield is true it returns an N x N matrix without
\* raising.
C3_RaisesIffNoYield ==
    (y_out.op = "get_y_matrix" /\ ModelSelected) =>
        /\ ~y_out.has => y_out.exc # "none"
        /\ y_out.has => (y_out.exc = "none" /\ IsSquare(y_out.mat))

\* C3 amended: get_y_matrix raises exactly when the active record set has no
\* record for the pair; where is_yield is true it returns the N x N record
\* times the bin widths without raising, and a record that is all-zero or
\* whose product is an electron or photon is returned although is_yield is
\* false.
C3_RaisesIffNoRecord ==
    (y_out.op = "get_y_matrix" /\ ModelSelected) =>
        LET key == <<y_out.projectile, y_out.daughter>>
        IN  /\ y_out.exc # "none" <=> key \notin DOMAIN ActiveRecords
            /\ y_out.has => y_out.exc = "none"
            /\ y_out.exc = "none" =>
                  /\ IsSquare(y_out.mat)
                  /\ y_out.mat = DotDiag(ActiveRecords[key], weights)

\* a matrix returned for a pair the index lists, after a model switch
C3_Witness ==
    /\ y_out.op = "get_y_matrix" /\ ModelSelected
    /\ y_out.has /\ y_out.exc = "none"
    /\ iy.iam = QGSJET

SupportedCharm == {MRS, sibyll23_pl}

\* inject_custom_charm_model(model) applied to a table on which the base
\* model iam was just selected and nothing was injected: the exception, the
\* active records, the index and the charm-model label it leaves
DirectInjection(iam, model) ==
    LET fresh == NeverInjected(iam)
        obj   == [NewYields EXCEPT !.iam = iam,
                                   !.projectiles = fresh.projectiles,
                                   !.secondary_dict = fresh.secondary_dict]
        r     == InjectRecords(obj, model, fresh.records)
        idx   == gen_index(r.dict)
    IN  [exc            |-> r.exc,
         records        |-> r.dict,
         projectiles    |-> IF r.exc = "none" THEN idx.projectiles
                            ELSE fresh.projectiles,
         secondary_dict |-> IF r.exc = "none" THEN idx.secondary_dict
                            ELSE fresh.secondary_dict,
         charm_model    |-> IF r.exc = "none" THEN model ELSE None]

\* C12: injecting a supported submodel B while a different supported
\* submodel A is active leaves the active records, the index and the
\* charm-model label that injecting B directly into the freshly selected
\* base model leaves; no record written by A survives.
C12_InjectionNotCumulative ==
    ( /\ y_out.op = "inject_custom_charm_model"
      /\ y_out.model \in SupportedCharm
      /\ y_out.prev_charm \in SupportedCharm
      /\ y_out.prev_charm # y_out.model )
        => LET ref == DirectInjection(iy.iam, y_out.model)
           IN  /\ y_out.exc = ref.exc
               /\ ActiveRecords = ref.records
               /\ iy.projectiles = ref.projectiles
               /\ iy.secondary_dict = ref.secondary_dict
               /\ iy.charm_model = ref.charm_model

\* sibyll23_pl injected without error while MRS was active, for a pair the
\* base table has no record of and MRS had written one
C12_Witness ==
    /\ y_out.op = "inject_custom_charm_model" /\ y_out.exc = "none"
    /\ y_out.model = sibyll23_pl
    /\ y_out.prev_charm = MRS
    /\ <<211, 421>> \notin DOMAIN loaded[iy.iam]
    /\ ActiveRecords[<<211, 421>>] # MRSYield(211, 421)

\* C15: inject_custom_charm_model with a non-null name outside the supported
\* set fails with an error and leaves the active records, the index and the
\* charm-model label as they were before the call, whether or not another
\* submodel was active.
C15_FailedInjectionAtomic ==
    ( /\ y_out.op = "inject_custom_charm_model"
      /\ y_out.model \notin SupportedCharm \cup {None}
      /\ ModelSelected )
        => /\ y_out.exc # "none"
           /\ Snapshot(iy) = y_out.before


(***************************************************************************)
(* Properties of the decay yield table (SpecDecay)                         *)
(***************************************************************************)
\* C14: once the decay index is built, for each alias a of 7013, 7113 and
\* 7213, daughters(a) is daughters(13) and daughters(-a) is daughters(-13)
\* (the same sequence), and for every daughter d of that list
\* get_d_matrix(a, d) returns what get_d_matrix(13, d) returns, and
\* get_d_matrix(-a, d) what get_d_matrix(-13, d) returns, without raising.
C14_AliasInheritance ==
    dy.exists =>
        \A n \in DOMAIN muon_aliases, sign \in {1, 0 - 1} :
            LET a    == sign * muon_aliases[n]
                muon == sign * 13
            IN  /\ daughters(dy, a) = daughters(dy, muon)
                /\ \A d \in Elems(daughters(dy, a)) :
                     /\ get_d_matrix(dy, a, d).exc = "none"
                     /\ get_d_matrix(dy, a, d) = get_d_matrix(dy, muon, d)
                /\ (d_out.op = "daughters" /\ d_out.mother = a) =>
                       d_out.list = daughters(dy, muon)
                /\ ( /\ d_out.op = "get_d_matrix" /\ d_out.mother = a
                     /\ d_out.daughter \in Elems(daughters(dy, muon)) ) =>
                       /\ d_out.exc = "none"
                       /\ d_out.mat = get_d_matrix(dy, muon, d_out.daughter).val

\* the matrix of an antimuon alias returned for a daughter of the antimuon,
\* from a file in which muon and antimuon have different daughters
C14_Witness ==
    /\ dy.exists
    /\ d_out.op = "get_d_matrix" /\ d_out.exc = "none"
    /\ d_out.mother = 0 - 7113
    /\ d_out.daughter \in Elems(daughters(dy, 0 - 13))
    /\ d_out.daughter \notin Elems(daughters(dy, 13))
    /\ Len(daughters(dy, 0 - 13)) >= 2
    /\ d_out.mat # Transpose(d_out.mat)

=============================================================================
